---- MODULE Spec2Model ----
(***************************************************************************)
(* Model of the sloglog file sink (FileLogger) and of Logger.log.          *)
(*                                                                         *)
(* Spec     : NThreads goroutines calling the log functions,               *)
(*            EnableFileLogging and DisableFileLogging concurrently, one   *)
(*            step per shared-memory access or lock operation, with the    *)
(*            calendar day advancing and MkdirAll/OpenFile failing at will.*)
(* SpecFair : Spec with every goroutine scheduled fairly.                  *)
(* SpecSeq  : the same steps taken by a single goroutine, whose process    *)
(*            may end at any point and be started again.                   *)
(*            In Spec and SpecSeq a record is its call number and the day  *)
(*            of its timestamp, and console output is left out.            *)
(* SpecCall : one call of a log function or of GetTraceID, start to        *)
(*            finish, on inputs drawn by InitCall, after any InitLogger    *)
(*            and EnableFileLogging: the record with its level, trace id,  *)
(*            source and attributes, and what each sink renders.           *)
(* SpecEnv  : one plain call in a process started with LOG_DIR_PATH set or *)
(*            unset, after any os.Setenv and EnableFileLogging: the        *)
(*            directory and the file the entry goes to.                    *)
(* Strings: "|-" and "+-" stand for the box-drawing prefixes of            *)
(* formatLogEntry, and the ANSI escapes are written "\033[..m".            *)
(***************************************************************************)
EXTENDS Integers, Sequences, FiniteSets, TLC

\* ------------------------------------------------------------------ bounds
NThreads   == 2      \* goroutines
MaxCalls   == 2      \* log calls in a run
MaxDay     == 2      \* calendar days the clock runs through
MaxCtl     == 3      \* EnableFileLogging and DisableFileLogging calls in a run
MaxSeqCalls == 3     \* log calls in a run of SpecSeq
MaxArgs    == 2      \* args of a log call in SpecCall
MaxRestarts == 1     \* times the process is started again in SpecSeq

Threads  == 1..NThreads
Days     == 1..MaxDay
NoThread == 0        \* mutex not write-held
NilFile  == 0        \* (*os.File)(nil)
NoDate   == 0        \* date == ""
NoRec    == [k |-> 0, day |-> 0]

VARIABLES
    now,        \* calendar day time.Now() falls on
    fl,         \* *fileLogger: [file, dir, date, enabled]
    mu,         \* fileLogger.mu: [writer, readers]
    handles,    \* every *os.File OpenFile has returned: [day, open, closes]
    files,      \* the log directory: day |-> records of <day>.log, in order
    dirExists,  \* the log directory exists
    pc,         \* position of each goroutine
    loc,        \* locals of each goroutine: [rec, file, today]
    calls,      \* log calls started
    nCtl,       \* EnableFileLogging and DisableFileLogging calls made
    everDisabled, \* DisableFileLogging has been called
    lost,       \* records whose WriteString failed (error ignored by the caller)
    minLevel,   \* opts.Level of the handlers InitLogger installed
    stdout,     \* lines the handlers wrote to os.Stdout
    req,        \* SpecCall: the call being made
    ret,        \* SpecCall: how the call ended
    lastRecord, \* SpecCall: the slog.Record the call built
    env,        \* the process environment: [LOG_DIR_PATH, cwd, getwdOk]
    startEnv,   \* the environment init() ran in
    nRestart    \* times the process has been started again

disp == <<minLevel, stdout, req, ret, lastRecord, env, startEnv, nRestart>>

vars == <<now, fl, mu, handles, files, dirExists, pc, loc, calls,
          nCtl, everDisabled, lost, minLevel, stdout, req, ret, lastRecord,
          env, startEnv, nRestart>>

\* slog.Level
LevelDebug == -4
LevelInfo  == 0
LevelWarn  == 4
LevelError == 8
Levels     == {LevelDebug, LevelInfo, LevelWarn, LevelError}

NoReq == [fn |-> "none"]
NoRet == [done |-> FALSE, panic |-> FALSE, value |-> ""]

NoLoc == [rec |-> NoRec, file |-> NilFile, today |-> NoDate]

\* No slog.Record built yet.
NoRecord == [time |-> 0, level |-> 0, message |-> "", attrs |-> <<>>]

\* ------------------------------------------------------- initFileLogger
\* The environment of a process started in /app without LOG_DIR_PATH.
DefaultEnv == [LOG_DIR_PATH |-> "", cwd |-> "/app", getwdOk |-> TRUE]

\* filepath.Join(dir, name) for clean, non-empty operands.
Join(dir, name) == dir \o "/" \o name

\* initFileLogger without the os.Getwd of line 236.
initFileLogger_Relative(e) ==
    IF e.LOG_DIR_PATH # "" THEN e.LOG_DIR_PATH ELSE "external/logs"

\* initFileLogger: the directory it stores in fileLogger.dir.
initFileLogger(e) ==
    IF e.LOG_DIR_PATH # "" THEN e.LOG_DIR_PATH
    ELSE IF ~e.getwdOk THEN "external/logs"
    ELSE Join(e.cwd, "external/logs")

\* fileLogger as init() leaves it.
NewFileLogger(e) ==
    [file |-> NilFile, dir |-> initFileLogger(e), date |-> NoDate,
     enabled |-> FALSE]

\* ------------------------------------------------------------- os.File
\* (*os.File).Close: marks the descriptor closed (a second Close only
\* returns an error, which the callers ignore).
Close(hs, h) ==
    [hs EXCEPT ![h] = [@ EXCEPT !.open = FALSE, !.closes = @ + 1]]

\* os.OpenFile with O_TRUNC among its flags: the file starts empty.
OpenFile_Trunc(fs, today) ==
    [d \in DOMAIN fs \cup {today} |-> IF d = today THEN <<>> ELSE fs[d]]

\* os.OpenFile(<today>.log, O_CREATE|O_WRONLY|O_APPEND): creates the file
\* when missing, never truncates.
OpenFile(fs, today) ==
    IF today \in DOMAIN fs THEN fs
    ELSE [d \in DOMAIN fs \cup {today} |-> IF d = today THEN <<>> ELSE fs[d]]

\* (*os.File).WriteString on an O_APPEND descriptor: one write at the end of
\* the file the descriptor names; on a closed descriptor it fails and writes
\* nothing.
WriteString(fs, hs, h, entry) ==
    IF hs[h].open
    THEN [fs EXCEPT ![hs[h].day] = Append(@, entry)]
    ELSE fs

\* ---------------------------------------------------------- getLogFile
\* getLogFile with one of its statements changed:
\*   "norotate"  the date comparison of line 282 dropped
\*   "noclose"   the Close of line 284 dropped
\*   "nocheck"   the enabled check of line 276 dropped
\*   "datefirst" fl.date assigned before MkdirAll instead of after OpenFile
getLogFileChanged(f, hs, fs, de, today, mkOk, opOk, how) ==
    IF how # "nocheck" /\ ~f.enabled
    THEN [fl |-> f, handles |-> hs, files |-> fs, dirExists |-> de,
          file |-> NilFile, err |-> FALSE]
    ELSE IF f.file = NilFile \/ (how # "norotate" /\ f.date # today)
    THEN LET hs1 == IF f.file # NilFile /\ how # "noclose"
                    THEN Close(hs, f.file) ELSE hs
             f1  == IF how = "datefirst" THEN [f EXCEPT !.date = today]
                    ELSE f
         IN
         IF ~mkOk
         THEN [fl |-> f1, handles |-> hs1, files |-> fs, dirExists |-> de,
               file |-> NilFile, err |-> TRUE]
         ELSE IF ~opOk
         THEN [fl |-> f1, handles |-> hs1, files |-> fs, dirExists |-> TRUE,
               file |-> NilFile, err |-> TRUE]
         ELSE LET h == Len(hs1) + 1 IN
              [fl |-> [f EXCEPT !.file = h, !.date = today],
               handles |-> Append(hs1, [day |-> today, open |-> TRUE,
                                        closes |-> 0]),
               files |-> OpenFile(fs, today), dirExists |-> TRUE,
               file |-> h, err |-> FALSE]
    ELSE [fl |-> f, handles |-> hs, files |-> fs, dirExists |-> de,
          file |-> f.file, err |-> FALSE]

getLogFile_NoRotate(f, hs, fs, de, today, mkOk, opOk) ==
    getLogFileChanged(f, hs, fs, de, today, mkOk, opOk, "norotate")

getLogFile_NoClose(f, hs, fs, de, today, mkOk, opOk) ==
    getLogFileChanged(f, hs, fs, de, today, mkOk, opOk, "noclose")

getLogFile_NoEnabledCheck(f, hs, fs, de, today, mkOk, opOk) ==
    getLogFileChanged(f, hs, fs, de, today, mkOk, opOk, "nocheck")

getLogFile_DateFirst(f, hs, fs, de, today, mkOk, opOk) ==
    getLogFileChanged(f, hs, fs, de, today, mkOk, opOk, "datefirst")

\* The body of getLogFile between Lock and the deferred Unlock.
getLogFile(f, hs, fs, de, today, mkOk, opOk) ==
    IF ~f.enabled
    THEN [fl |-> f, handles |-> hs, files |-> fs, dirExists |-> de,
          file |-> NilFile, err |-> FALSE]
    ELSE IF f.file = NilFile \/ f.date # today
    THEN LET hs1 == IF f.file # NilFile THEN Close(hs, f.file) ELSE hs IN
         IF ~mkOk
         THEN [fl |-> f, handles |-> hs1, files |-> fs, dirExists |-> de,
               file |-> NilFile, err |-> TRUE]
         ELSE IF ~opOk
         THEN [fl |-> f, handles |-> hs1, files |-> fs, dirExists |-> TRUE,
               file |-> NilFile, err |-> TRUE]
         ELSE LET h == Len(hs1) + 1 IN
              [fl |-> [f EXCEPT !.file = h, !.date = today],
               handles |-> Append(hs1, [day |-> today, open |-> TRUE,
                                        closes |-> 0]),
               files |-> OpenFile(fs, today), dirExists |-> TRUE,
               file |-> h, err |-> FALSE]
    ELSE [fl |-> f, handles |-> hs, files |-> fs, dirExists |-> de,
          file |-> f.file, err |-> FALSE]

\* ------------------------------------------------------------ sync.RWMutex
CanLock  == mu.writer = NoThread /\ mu.readers = {}
CanRLock == mu.writer = NoThread

\* ------------------------------------------------------------------- Init
Init ==
    /\ now = 1
    /\ fl = NewFileLogger(DefaultEnv)
    /\ mu = [writer |-> NoThread, readers |-> {}]
    /\ handles = <<>>
    /\ files = <<>>
    /\ dirExists = FALSE
    /\ pc = [t \in Threads |-> "idle"]
    /\ loc = [t \in Threads |-> NoLoc]
    /\ calls = 0
    /\ nCtl = 0
    /\ everDisabled = FALSE
    /\ lost = {}
    /\ minLevel = LevelInfo
    /\ stdout = <<>>
    /\ req = NoReq
    /\ ret = NoRet
    /\ lastRecord = NoRecord
    /\ env = DefaultEnv
    /\ startEnv = DefaultEnv
    /\ nRestart = 0

\* The call returns: its locals, the record among them, are gone.
Return(t) ==
    /\ pc' = [pc EXCEPT ![t] = "idle"]
    /\ loc' = [loc EXCEPT ![t] = NoLoc]

\* ------------------------------------------------------------- Logger.log
\* log up to the record: record := slog.NewRecord(time.Now(), ...).
LogCallUpTo(t, max) ==
    /\ UNCHANGED disp
    /\ pc[t] = "idle"
    /\ calls < max
    /\ calls' = calls + 1
    /\ loc' = [loc EXCEPT ![t] =
                 [NoLoc EXCEPT !.rec = [k |-> calls + 1,
                                        day |-> now]]]
    /\ pc' = [pc EXCEPT ![t] = "log117"]
    /\ UNCHANGED <<now, fl, mu, handles, files, dirExists, nCtl, everDisabled, lost>>

LogCall(t) == LogCallUpTo(t, MaxCalls)

\* if fileLogger != nil && fileLogger.enabled  (read without the mutex)
LogCheckEnabled(t) ==
    /\ UNCHANGED disp
    /\ pc[t] = "log117"
    /\ IF fl.enabled
       THEN /\ pc' = [pc EXCEPT ![t] = "write306"]
            /\ UNCHANGED loc
       ELSE Return(t)
    /\ UNCHANGED <<now, fl, mu, handles, files, dirExists, calls, nCtl, everDisabled, lost>>

\* writeToFile: if !fl.enabled { return }  (read without the mutex)
WriteCheckEnabled(t) ==
    /\ UNCHANGED disp
    /\ pc[t] = "write306"
    /\ IF fl.enabled
       THEN /\ pc' = [pc EXCEPT ![t] = "get273"]
            /\ UNCHANGED loc
       ELSE Return(t)
    /\ UNCHANGED <<now, fl, mu, handles, files, dirExists, calls, nCtl, everDisabled, lost>>

\* getLogFile: fl.mu.Lock()
GetLock(t) ==
    /\ UNCHANGED disp
    /\ pc[t] = "get273"
    /\ CanLock
    /\ mu' = [mu EXCEPT !.writer = t]
    /\ pc' = [pc EXCEPT ![t] = "get276"]
    /\ UNCHANGED <<now, fl, handles, files, dirExists, loc, calls, nCtl, everDisabled, lost>>

\* getLogFile with an Unlock before each return in place of the deferred
\* one, and none before the two error returns.
GetLogFile_KeepLockOnError(t) ==
    /\ UNCHANGED disp
    /\ pc[t] = "get276"
    /\ \E mkOk \in BOOLEAN, opOk \in BOOLEAN :
         LET r == getLogFile(fl, handles, files, dirExists, now, mkOk, opOk)
         IN /\ fl' = r.fl
            /\ handles' = r.handles
            /\ files' = r.files
            /\ dirExists' = r.dirExists
            /\ mu' = IF r.err THEN mu ELSE [mu EXCEPT !.writer = NoThread]
            /\ IF r.err \/ r.file = NilFile
               THEN Return(t)
               ELSE /\ loc' = [loc EXCEPT ![t].file = r.file,
                                          ![t].today = now]
                    /\ pc' = [pc EXCEPT ![t] = "write315"]
    /\ UNCHANGED <<now, calls, nCtl, everDisabled, lost>>

\* getLogFile's body, its deferred Unlock, and writeToFile's
\* if err != nil || file == nil { return }.
GetLogFile(t) ==
    /\ UNCHANGED disp
    /\ pc[t] = "get276"
    /\ \E mkOk \in BOOLEAN, opOk \in BOOLEAN :
         LET r == getLogFile(fl, handles, files, dirExists, now, mkOk, opOk)
         IN /\ fl' = r.fl
            /\ handles' = r.handles
            /\ files' = r.files
            /\ dirExists' = r.dirExists
            /\ mu' = [mu EXCEPT !.writer = NoThread]
            /\ IF r.err \/ r.file = NilFile
               THEN Return(t)
               ELSE /\ loc' = [loc EXCEPT ![t].file = r.file,
                                          ![t].today = now]
                    /\ pc' = [pc EXCEPT ![t] = "write315"]
    /\ UNCHANGED <<now, calls, nCtl, everDisabled, lost>>

\* writeToFile: fl.mu.RLock()
WriteRLock(t) ==
    /\ UNCHANGED disp
    /\ pc[t] = "write315"
    /\ CanRLock
    /\ mu' = [mu EXCEPT !.readers = @ \cup {t}]
    /\ pc' = [pc EXCEPT ![t] = "write318"]
    /\ UNCHANGED <<now, fl, handles, files, dirExists, loc, calls, nCtl, everDisabled, lost>>

\* writeToFile: file.WriteString(entry + "\n") and the deferred RUnlock.
WriteEntry(t) ==
    /\ UNCHANGED disp
    /\ pc[t] = "write318"
    /\ files' = WriteString(files, handles, loc[t].file, loc[t].rec)
    /\ mu' = [mu EXCEPT !.readers = @ \ {t}]
    /\ lost' = IF handles[loc[t].file].open THEN lost
               ELSE lost \cup {loc[t].rec}
    /\ Return(t)
    /\ UNCHANGED <<now, fl, handles, dirExists, calls, nCtl, everDisabled>>

\* ------------------------------------------------------ EnableFileLogging
\* EnableFileLogging running initFileLogger although fileLogger is set: a
\* new FileLogger takes the place of the one holding the handle.
EnableFileLogging_Reinit(t) ==
    /\ UNCHANGED disp
    /\ pc[t] = "idle"
    /\ nCtl < MaxCtl
    /\ nCtl' = nCtl + 1
    /\ fl' = [NewFileLogger(env) EXCEPT !.enabled = TRUE]
    /\ UNCHANGED <<now, mu, handles, files, dirExists, pc, loc, calls,
                   everDisabled, lost>>

\* fileLogger is never nil after init(), so the call is the one statement
\* fileLogger.enabled = true  (written without the mutex).
EnableFileLogging(t) ==
    /\ UNCHANGED disp
    /\ pc[t] = "idle"
    /\ nCtl < MaxCtl
    /\ nCtl' = nCtl + 1
    /\ fl' = [fl EXCEPT !.enabled = TRUE]
    /\ UNCHANGED <<now, mu, handles, files, dirExists, pc, loc, calls,
                   everDisabled, lost>>

\* ----------------------------------------------------- DisableFileLogging
\* The call, blocked until it has fileLogger.mu.Lock().
DisableLock(t) ==
    /\ UNCHANGED disp
    /\ pc[t] = "idle"
    /\ nCtl < MaxCtl
    /\ CanLock
    /\ nCtl' = nCtl + 1
    /\ everDisabled' = TRUE
    /\ mu' = [mu EXCEPT !.writer = t]
    /\ pc' = [pc EXCEPT ![t] = "disable263"]
    /\ UNCHANGED <<now, fl, handles, files, dirExists, loc, calls, lost>>

\* DisableFileLogging closing the handle without clearing the field.
disableFileLogging_KeepFile(f, hs) ==
    [fl |-> [f EXCEPT !.enabled = FALSE],
     handles |-> IF f.file # NilFile THEN Close(hs, f.file) ELSE hs]

\* The body of DisableFileLogging under the lock.
disableFileLogging(f, hs) ==
    [fl |-> [f EXCEPT !.file = NilFile, !.enabled = FALSE],
     handles |-> IF f.file # NilFile THEN Close(hs, f.file) ELSE hs]

\* Close and clear the handle, enabled = false, deferred Unlock.
DisableBody(t) ==
    /\ UNCHANGED disp
    /\ pc[t] = "disable263"
    /\ LET r == disableFileLogging(fl, handles)
       IN /\ fl' = r.fl
          /\ handles' = r.handles
    /\ mu' = [mu EXCEPT !.writer = NoThread]
    /\ pc' = [pc EXCEPT ![t] = "idle"]
    /\ UNCHANGED <<now, files, dirExists, loc, calls, nCtl, everDisabled,
                   lost>>

\* ------------------------------------------------------------ environment
\* Midnight passes: the calendar day that time.Now() reports moves on by one
\* (the wall clock is taken not to step backwards).
Tick ==
    /\ UNCHANGED disp
    /\ now < MaxDay
    /\ now' = now + 1
    /\ UNCHANGED <<fl, mu, handles, files, dirExists, pc, loc, calls,
                   nCtl, everDisabled, lost>>

Rest(t) ==
    \/ LogCheckEnabled(t)
    \/ WriteCheckEnabled(t)
    \/ GetLock(t)
    \/ GetLogFile(t)
    \/ WriteRLock(t)
    \/ WriteEntry(t)
    \/ EnableFileLogging(t)
    \/ DisableLock(t)
    \/ DisableBody(t)

Next == Tick \/ \E t \in Threads : LogCall(t) \/ Rest(t)

Spec == Init /\ [][Next]_vars

\* A goroutine inside a call takes its next step: the Go scheduler runs every
\* runnable goroutine, and a goroutine waiting in Lock or RLock gets the
\* mutex when it is free again and again (sync.Mutex hands the lock to a
\* waiter that is being starved).
Running(t) ==
    \/ LogCheckEnabled(t)
    \/ WriteCheckEnabled(t)
    \/ GetLogFile(t)
    \/ WriteEntry(t)
    \/ DisableBody(t)

SpecFair ==
    /\ Spec
    /\ \A t \in Threads :
          /\ WF_vars(Running(t))
          /\ SF_vars(GetLock(t))
          /\ SF_vars(WriteRLock(t))

\* ====================================================== one call, whole
\* ------------------------------------------------------------- carriers
\* What a carrier holds under TraceIDKey: nothing, a string, or a value of
\* another type.
NoVal   == [type |-> "nil", v |-> ""]
CtxVals == {NoVal,
            [type |-> "string", v |-> "abc-123"],
            [type |-> "string", v |-> ""],
            [type |-> "int", v |-> "42"]}
\* ctx any: nil, a *fasthttp.RequestCtx, a context.Context, anything else.
NilCtx     == [kind |-> "nil", val |-> NoVal]
Background == [kind |-> "context", val |-> NoVal]
CtxCarriers ==
    {NilCtx} \cup [kind : {"fasthttp", "context"}, val : CtxVals]
Carriers == CtxCarriers \cup {[kind |-> "other", val |-> NoVal]}

\* uuid.New().String()
UUIDs == {"abc-123"}

\* TraceIDToFHCtx: ctx.SetUserValue(TraceIDKey, uuid) on a RequestCtx.
TraceIDToFHCtx(ctx, uuid) ==
    [ctx EXCEPT !.val = [type |-> "string", v |-> uuid]]

\* CtxWithTraceID: context.WithValue(WithTimeout(parent), TraceIDKey, uuid).
CtxWithTraceID(parent, uuid) ==
    [kind |-> "context", val |-> [type |-> "string", v |-> uuid]]

\* GetTraceID: the returned string, or the panic of a failed type assertion.
GetTraceID(ctx) ==
    IF ctx.kind = "nil" THEN [panic |-> FALSE, id |-> ""]
    ELSE IF ctx.kind = "fasthttp"
    THEN IF ctx.val.type # "nil"
         THEN IF ctx.val.type = "string"
              THEN [panic |-> FALSE, id |-> ctx.val.v]
              ELSE [panic |-> TRUE, id |-> ""]
         ELSE [panic |-> FALSE, id |-> ""]
    ELSE IF ctx.kind = "context" /\ ctx.val.type # "nil"
              /\ ctx.val.type = "string"
    THEN [panic |-> FALSE, id |-> ctx.val.v]
    ELSE [panic |-> FALSE, id |-> ""]

\* ------------------------------------------------------------- rendering
\* time.Time.Format of an instant of day d, by layout.
Date(d) == "2025-07-0" \o ToString(d)
FormatConsole(d) == Date(d) \o " 10:30:45 UTC"
FormatFile(d)    == Date(d) \o " 10:30:45.123"

\* slog.Level.String for the levels no case names.
LevelString(level) == "LVL" \o ToString(level)

formatLevel(level) ==
    CASE level = LevelDebug -> "DEBUG"
      [] level = LevelInfo  -> "INFO"
      [] level = LevelWarn  -> "WARN"
      [] level = LevelError -> "ERROR"
      [] OTHER -> LevelString(level)

\* formatLevelWithColor with the colours of Warn and Error exchanged.
formatLevelWithColor_Swapped(level) ==
    CASE level = LevelDebug -> "\\033[37m" \o "[DEBUG]" \o "\\033[0m"
      [] level = LevelInfo  -> "\\033[34m" \o "[INFO]" \o "\\033[0m"
      [] level = LevelWarn  -> "\\033[31m" \o "[WARN]" \o "\\033[0m"
      [] level = LevelError -> "\\033[33m" \o "[ERROR]" \o "\\033[0m"
      [] OTHER -> "[" \o LevelString(level) \o "]"

formatLevelWithColor(level) ==
    CASE level = LevelDebug -> "\\033[37m" \o "[DEBUG]" \o "\\033[0m"
      [] level = LevelInfo  -> "\\033[34m" \o "[INFO]" \o "\\033[0m"
      [] level = LevelWarn  -> "\\033[33m" \o "[WARN]" \o "\\033[0m"
      [] level = LevelError -> "\\033[31m" \o "[ERROR]" \o "\\033[0m"
      [] OTHER -> "[" \o LevelString(level) \o "]"

\* strings.Replace(s, old, new, 1): the first occurrence of old replaced.
RECURSIVE ReplaceFrom(_, _, _, _)
ReplaceFrom(s, old, new, i) ==
    IF i + Len(old) - 1 > Len(s) THEN s
    ELSE IF SubSeq(s, i, i + Len(old) - 1) = old
    THEN SubSeq(s, 1, i - 1) \o new \o SubSeq(s, i + Len(old), Len(s))
    ELSE ReplaceFrom(s, old, new, i + 1)

Replace1(s, old, new) == ReplaceFrom(s, old, new, 1)

\* formatLogEntry replacing the prefix of the last attribute line whenever
\* there is an attribute (len(attrs) > 0 in place of len(attrs) > 1).
formatLogEntry_AlwaysLast(record) ==
    LET mainLine == "[" \o FormatFile(record.time) \o "] "
                        \o formatLevel(record.level) \o " | "
                        \o record.message
        attrs == [i \in DOMAIN record.attrs |->
                    "  |- " \o record.attrs[i].key \o ": "
                            \o record.attrs[i].value]
        n == Len(attrs)
        attrs1 == IF n > 0
                  THEN [attrs EXCEPT ![n] = Replace1(attrs[n], "|-", "+-")]
                  ELSE attrs
    IN <<mainLine>> \o attrs1

\* formatLogEntry: the lines strings.Join puts "\n" between.
formatLogEntry(record) ==
    LET mainLine == "[" \o FormatFile(record.time) \o "] "
                        \o formatLevel(record.level) \o " | "
                        \o record.message
        attrs == [i \in DOMAIN record.attrs |->
                    "  |- " \o record.attrs[i].key \o ": "
                            \o record.attrs[i].value]
        n == Len(attrs)
        attrs1 == IF n > 1
                  THEN [attrs EXCEPT ![n] = Replace1(attrs[n], "|-", "+-")]
                  ELSE attrs
    IN <<mainLine>> \o attrs1

\* CustomHandler.Enabled
Enabled(h, level) == level >= h.level

IsSource(a)  == a.key = "source"
NotSource(a) == a.key # "source"

\* CustomHandler.Handle: the stream after the call. A line is the sequence of
\* the fields that the handler joins with single spaces: timestamp, level,
\* message, the source value when shown, then key=value per attribute.
Handle(h, r, out) ==
    IF ~Enabled(h, r.level) THEN out
    ELSE LET sources == SelectSeq(r.attrs, IsSource)
             shown   == IF h.addSource /\ h.optsAddSource /\ sources # <<>>
                        THEN <<sources[1].value>> ELSE <<>>
             others  == SelectSeq(r.attrs, NotSource)
             attrs   == [i \in DOMAIN others |->
                            others[i].key \o "=" \o others[i].value]
         IN Append(out, <<FormatConsole(r.time),
                          formatLevelWithColor(r.level),
                          r.message>> \o shown \o attrs)

\* --------------------------------------------------------------- loggers
\* InitLogger: defaultLogger and Min with their handlers.
Loggers == {"default", "Min"}
LoggerOf(name, level) ==
    [addSource |-> name = "default",
     handler   |-> [level |-> level, optsAddSource |-> TRUE,
                    addSource |-> name = "default"]]

\* ---------------------------------------------------------------- inputs
\* args ...any: slog.Attr values and values of other types.
ArgVals == {[attr |-> TRUE,  key |-> "user_id",  value |-> "42"],
            [attr |-> TRUE,  key |-> "source",   value |-> "mine"],
            [attr |-> TRUE,  key |-> "trace_id", value |-> "own"],
            [attr |-> FALSE, key |-> "user_id",  value |-> ""]}
ArgLists == UNION {[1..n -> ArgVals] : n \in 0..MaxArgs}
IsAttr(a) == a.attr
AsAttr(a) == [key |-> a.key, value |-> a.value]

\* A call of Debug/Info/Warn/Error (plain: ctx is context.Background()) or
\* of their Ctx forms on a logger, or a call of GetTraceID.
Requests ==
    [fn : {"log"}, logger : Loggers, level : Levels, plain : {TRUE},
     ctx : {Background}, callerOk : BOOLEAN, msg : {"boot"},
     args : ArgLists]
    \cup
    [fn : {"log"}, logger : Loggers, level : Levels, plain : {FALSE},
     ctx : CtxCarriers, callerOk : BOOLEAN, msg : {"boot"},
     args : ArgLists]
    \cup
    [fn : {"GetTraceID"}, ctx : Carriers]

\* The attribute log appends at line 91 and the one it appends at line 99.
TraceAttr(traceID) == [key |-> "trace_id", value |-> traceID]
SourceAttr == [key |-> "source", value |-> "[/app/main.go:15]"]

\* The args of a list up to its first value that is no slog.Attr.
RECURSIVE AttrsBefore(_)
AttrsBefore(args) ==
    IF args = <<>> \/ ~IsAttr(Head(args)) THEN <<>>
    ELSE <<Head(args)>> \o AttrsBefore(Tail(args))

\* log leaving its loop over args at the first value that is no slog.Attr
\* (break in place of going on to the next arg).
Enrich_StopAtMalformed(l, ctx, callerOk, args, traceID) ==
    LET trace  == IF ctx.kind # "nil" /\ traceID # ""
                  THEN <<TraceAttr(traceID)>> ELSE <<>>
        source == IF l.addSource /\ callerOk THEN <<SourceAttr>> ELSE <<>>
        kept   == AttrsBefore(args)
    IN trace \o source \o [i \in DOMAIN kept |-> AsAttr(kept[i])]

\* Logger.log, lines 85-108: attrs.
Enrich_NoTrace(l, ctx, callerOk, args, traceID) ==
    LET source == IF l.addSource /\ callerOk THEN <<SourceAttr>> ELSE <<>>
        kept   == SelectSeq(args, IsAttr)
    IN source \o [i \in DOMAIN kept |-> AsAttr(kept[i])]

Enrich(l, ctx, callerOk, args, traceID) ==
    LET trace  == IF ctx.kind # "nil" /\ traceID # ""
                  THEN <<TraceAttr(traceID)>> ELSE <<>>
        source == IF l.addSource /\ callerOk THEN <<SourceAttr>> ELSE <<>>
        kept   == SelectSeq(args, IsAttr)
    IN trace \o source \o [i \in DOMAIN kept |-> AsAttr(kept[i])]

InitCall ==
    /\ now = 1
    /\ fl = NewFileLogger(DefaultEnv)
    /\ mu = [writer |-> NoThread, readers |-> {}]
    /\ handles = <<>>
    /\ files = <<>>
    /\ dirExists = FALSE
    /\ pc = [t \in Threads |-> "idle"]
    /\ loc = [t \in Threads |-> NoLoc]
    /\ calls = 0
    /\ nCtl = 0
    /\ everDisabled = FALSE
    /\ lost = {}
    /\ minLevel = LevelInfo
    /\ stdout = <<>>
    /\ req \in Requests
    /\ ret = NoRet
    /\ lastRecord = NoRecord
    /\ env = DefaultEnv
    /\ startEnv = DefaultEnv
    /\ nRestart = 0

\* InitLogger(level)
InitLogger ==
    /\ ret = NoRet
    /\ \E level \in Levels : minLevel' = level
    /\ UNCHANGED <<now, fl, mu, handles, files, dirExists, pc, loc, calls,
                   nCtl, everDisabled, lost, stdout, req, ret, lastRecord, env,
                   startEnv, nRestart>>

\* Logger.log from entry to return, in one goroutine: the record, the
\* console handler, then formatLogEntry and writeToFile with its getLogFile, whose
\* time.Now() may already fall on the day after the record's.
CallLog ==
    /\ req.fn = "log"
    /\ ret = NoRet
    /\ LET l   == LoggerOf(req.logger, minLevel)
           tid == IF req.ctx.kind # "nil" THEN GetTraceID(req.ctx)
                  ELSE [panic |-> FALSE, id |-> ""]
       IN IF tid.panic
          THEN /\ ret' = [done |-> TRUE, panic |-> TRUE, value |-> ""]
               /\ UNCHANGED <<now, fl, handles, files, dirExists, stdout,
                              lastRecord>>
          ELSE \E mkOk \in BOOLEAN, opOk \in BOOLEAN, today \in Days :
               LET r == [time |-> now, level |-> req.level,
                         message |-> req.msg,
                         attrs |-> Enrich(l, req.ctx, req.callerOk,
                                          req.args, tid.id)]
                   g == getLogFile(fl, handles, files, dirExists, today,
                                   mkOk, opOk)
               IN /\ lastRecord' = r
                  /\ stdout' = Handle(l.handler, r, stdout)
                  /\ IF fl.enabled
                     THEN /\ today \in {now, now + 1}
                          /\ now' = today
                          /\ fl' = g.fl
                          /\ handles' = g.handles
                          /\ dirExists' = g.dirExists
                          /\ files' = IF g.err \/ g.file = NilFile
                                      THEN g.files
                                      ELSE WriteString(g.files, g.handles,
                                               g.file, formatLogEntry(r))
                     ELSE /\ today = now
                          /\ UNCHANGED <<now, fl, handles, files,
                                         dirExists>>
                  /\ ret' = [done |-> TRUE, panic |-> FALSE, value |-> ""]
    /\ UNCHANGED <<mu, pc, loc, calls, nCtl, everDisabled, lost,
                   minLevel, req, env, startEnv, nRestart>>

\* GetTraceID(ctx) called directly.
CallGetTraceID ==
    /\ req.fn = "GetTraceID"
    /\ ret = NoRet
    /\ LET r == GetTraceID(req.ctx)
       IN ret' = [done |-> TRUE, panic |-> r.panic, value |-> r.id]
    /\ UNCHANGED <<now, fl, mu, handles, files, dirExists, pc, loc, calls,
                   nCtl, everDisabled, lost, minLevel, stdout, req, lastRecord,
                   env, startEnv, nRestart>>

\* The configuration calls come before the call, and EnableFileLogging once.
NextCall ==
    \/ InitLogger
    \/ (ret = NoRet /\ ~fl.enabled /\ EnableFileLogging(1))
    \/ CallLog
    \/ CallGetTraceID

SpecCall == InitCall /\ [][NextCall]_vars

\* ------------------------------------------------------ the log directory
\* Processes started with LOG_DIR_PATH unset or set, in /app.
LogDirs == {"", "/var/log/app"}
Envs == [LOG_DIR_PATH : LogDirs, cwd : {"/app"}, getwdOk : BOOLEAN]

\* A plain call without args.
PlainRequests == {r \in Requests : r.fn = "log" /\ r.plain /\ r.args = <<>>}

InitEnv ==
    /\ env \in Envs
    /\ startEnv = env
    /\ fl = NewFileLogger(env)
    /\ req \in PlainRequests
    /\ now = 1
    /\ mu = [writer |-> NoThread, readers |-> {}]
    /\ handles = <<>>
    /\ files = <<>>
    /\ dirExists = FALSE
    /\ pc = [t \in Threads |-> "idle"]
    /\ loc = [t \in Threads |-> NoLoc]
    /\ calls = 0
    /\ nCtl = 0
    /\ everDisabled = FALSE
    /\ lost = {}
    /\ minLevel = LevelInfo
    /\ stdout = <<>>
    /\ ret = NoRet
    /\ lastRecord = NoRecord
    /\ nRestart = 0

\* os.Setenv("LOG_DIR_PATH", dir) by the application, before its log call.
Setenv ==
    /\ ret = NoRet
    /\ \E dir \in LogDirs \ {env.LOG_DIR_PATH} :
          env' = [env EXCEPT !.LOG_DIR_PATH = dir]
    /\ UNCHANGED <<now, fl, mu, handles, files, dirExists, pc, loc, calls,
                   nCtl, everDisabled, lost, minLevel, stdout, req, ret,
                   lastRecord, startEnv, nRestart>>

NextEnv ==
    \/ Setenv
    \/ (ret = NoRet /\ ~fl.enabled /\ EnableFileLogging(1))
    \/ CallLog

SpecEnv == InitEnv /\ [][NextEnv]_vars

\* filename of getLogFile, line 291, for the day-file of day d.
PathOf(d) == Join(fl.dir, Date(d) \o ".log")

\* The entries of every day-file.
FileEntries == UNION {{files[d][i] : i \in DOMAIN files[d]} :
                         d \in DOMAIN files}

\* A single goroutine making the same calls one after the other.
SeqLogCall == LogCallUpTo(1, MaxSeqCalls)

\* The process ends, at any point, and is started again: its descriptors are
\* closed by the exit, init() runs InitLogger(slog.LevelInfo) and
\* initFileLogger, and the day-files are what they were.
Restart ==
    /\ nRestart < MaxRestarts
    /\ nRestart' = nRestart + 1
    /\ fl' = NewFileLogger(env)
    /\ startEnv' = env
    /\ minLevel' = LevelInfo
    /\ mu' = [writer |-> NoThread, readers |-> {}]
    /\ handles' = [h \in DOMAIN handles |->
                      [handles[h] EXCEPT !.open = FALSE]]
    /\ pc' = [t \in Threads |-> "idle"]
    /\ loc' = [t \in Threads |-> NoLoc]
    /\ UNCHANGED <<now, files, dirExists, calls, nCtl, everDisabled, lost,
                   stdout, req, ret, lastRecord, env>>

NextSeq == Tick \/ SeqLogCall \/ Rest(1) \/ Restart

SpecSeq == Init /\ [][NextSeq]_vars

\* ------------------------------------------------------------ vocabulary
Holds(t)     == mu.writer = t \/ t \in mu.readers
OpenHandles  == {h \in DOMAIN handles : handles[h].open}
AllIdle      == \A t \in Threads : pc[t] = "idle"
\* The records of every day-file, as a set of <<day, position, record>>.
Written      == UNION {{<<d, i, files[d][i]>> : i \in DOMAIN files[d]} :
                          d \in DOMAIN files}
\* getLogFile has to open a file: no handle, or a handle of another day.
NeedsOpen    == fl.file = NilFile \/ fl.date # now
\* t's getLogFile step ran into a MkdirAll or OpenFile failure.
OpenFailed(t) ==
    /\ GetLogFile(t)
    /\ fl.enabled /\ NeedsOpen
    /\ Len(handles') = Len(handles)

\* ------------------------------------------------------------------- C1
\* C1: an append is atomic with respect to rotation: when a call reaches
\* WriteString, the handle its getLogFile returned is still open and still
\* the sink's current handle (stated for runs without DisableFileLogging,
\* where only a rotation can close a handle).
C1_AppendAtomic ==
    ~everDisabled =>
        \A t \in Threads :
            pc[t] = "write318" =>
                /\ handles[loc[t].file].open
                /\ fl.file = loc[t].file

\* ------------------------------------------------------------------- C2
\* C2: when every log call has returned and the sink was never disabled,
\* every record whose call got a file from getLogFile is in a day-file,
\* exactly once: none was lost to a failed WriteString, none is duplicated.
C2_AllRecordsWritten ==
    (AllIdle /\ ~everDisabled) =>
        /\ lost = {}
        /\ \A x \in Written, y \in Written : x[3] = y[3] => x = y

\* ------------------------------------------------------------------- C3
\* C3 as claimed: every record in <d>.log carries a timestamp of day d.
C3_RecordInOwnDayFile ==
    \A d \in DOMAIN files : \A i \in DOMAIN files[d] : files[d][i].day = d

\* C3 as amended: a rotation check that finds an open handle of another day
\* closes it and, unless MkdirAll or OpenFile fails, opens <today>.log; and
\* a record is appended only to the file named for the day of its own call's
\* rotation check (today in getLogFile), which, the clock moving forwards, is
\* never before the record's timestamp day.
C3_RecordInRotationDayFile ==
    [][\A t \in Threads :
         /\ (GetLogFile(t) /\ fl.enabled /\ fl.file # NilFile
               /\ fl.date # now) =>
                /\ ~handles'[fl.file].open
                /\ pc'[t] = "write315" =>
                      /\ fl'.file = Len(handles')
                      /\ fl'.file # fl.file
                      /\ handles'[fl'.file].open
                      /\ handles'[fl'.file].day = now
                      /\ fl'.date = now
                      /\ now \in DOMAIN files'
         /\ WriteEntry(t) =>
                /\ loc[t].rec.day <= loc[t].today
                /\ \A d \in DOMAIN files :
                      d # loc[t].today => files'[d] = files[d]
      ]_vars

\* A record stamped on day 1 sits in the file of day 2, which a rotation
\* opened after closing the handle of day 1.
C3_Witness ==
    /\ 2 \in DOMAIN files
    /\ \E i \in DOMAIN files[2] : files[2][i].day = 1
    /\ \E h \in DOMAIN handles : handles[h].day = 1 /\ ~handles[h].open
    /\ \E h \in DOMAIN handles : handles[h].day = 2 /\ handles[h].open

\* ------------------------------------------------------------------- C4
\* C4: at most one handle is open, and an open handle is the sink's current
\* one, named for the sink's date field.
C4_OneOpenHandle ==
    /\ Cardinality(OpenHandles) <= 1
    /\ \A h \in OpenHandles : h = fl.file /\ handles[h].day = fl.date

\* After a rotation: the old handle closed, the new one open, a goroutine
\* still holding the old one.
C4_Witness ==
    /\ Len(handles) >= 2
    /\ OpenHandles = {Len(handles)}
    /\ \E t \in Threads : loc[t].file # NilFile /\ loc[t].file # fl.file

\* ------------------------------------------------------------------- C5
\* C5: every step that reads or writes a FileLogger field (file, date,
\* enabled) is taken by a goroutine that holds fl.mu.
C5_AccessUnderMutex ==
    [][\A t \in Threads :
         (\/ EnableFileLogging(t)
          \/ LogCheckEnabled(t)
          \/ WriteCheckEnabled(t)
          \/ GetLogFile(t)
          \/ DisableBody(t)) => Holds(t)
      ]_vars

\* ------------------------------------------------------------------- C6
\* C6: the sink starts disabled, and no step taken while it is disabled
\* creates the log directory, opens a handle, creates a file or appends to
\* one.
C6_DisabledNoOp ==
    [][~fl.enabled =>
         /\ dirExists' = dirExists
         /\ Len(handles') = Len(handles)
         /\ files' = files
      ]_vars

\* DisableFileLogging has returned while a log call that had found the sink
\* enabled is in flight: past getLogFile, holding the handle it returned and
\* about to WriteString.
C6_Witness ==
    /\ everDisabled /\ ~fl.enabled /\ mu.writer = NoThread
    /\ \E t \in Threads : pc[t] = "write318" /\ loc[t].file # NilFile

\* ------------------------------------------------------------------- C7
\* C7 (one goroutine): DisableFileLogging leaves no open handle and file nil;
\* the next append after EnableFileLogging, if MkdirAll and OpenFile succeed,
\* opens <today>.log keeping what the file holds, and its record is appended
\* at the end of that file.
C7_DisableThenEnable ==
    /\ [](~fl.enabled => fl.file = NilFile /\ OpenHandles = {})
    /\ [](fl.enabled /\ fl.file = NilFile =>
            LET r == getLogFile(fl, handles, files, dirExists, now,
                                TRUE, TRUE)
            IN /\ r.file = Len(r.handles) /\ r.fl.file = r.file
               /\ r.handles[r.file] = [day |-> now, open |-> TRUE,
                                       closes |-> 0]
               /\ now \in DOMAIN r.files
               /\ now \in DOMAIN files => r.files[now] = files[now])
    /\ [][\A t \in Threads :
            /\ (GetLogFile(t) /\ fl.enabled /\ fl.file = NilFile
                  /\ pc'[t] = "write315") =>
                   /\ fl'.file = Len(handles') /\ loc'[t].file = fl'.file
                   /\ handles'[fl'.file].open
                   /\ handles'[fl'.file].day = now
                   /\ now \in DOMAIN files'
                   /\ now \in DOMAIN files => files'[now] = files[now]
            /\ WriteEntry(t) =>
                   files'[loc[t].today] =
                       Append(files[loc[t].today], loc[t].rec)
         ]_vars

\* Disabled and enabled again on the day a file was written: the file holds
\* a record from before the disable and, after it, one appended through the
\* handle reopened since.
C7_Witness ==
    /\ everDisabled /\ fl.enabled /\ nRestart = 0
    /\ \E d \in DOMAIN files :
          /\ Len(files[d]) >= 2
          /\ fl.file # NilFile /\ fl.file >= 2
          /\ handles[fl.file].day = d
          /\ handles[1].day = d

\* ------------------------------------------------------------------- C8
\* C8 (one goroutine): a getLogFile whose MkdirAll or OpenFile fails, on a
\* first open or in a rotation, drops the record and returns (no lock held,
\* nothing written, the record kept nowhere), leaves the sink enabled and has
\* the next append open again; that append, with MkdirAll and OpenFile
\* succeeding, gets an open handle of <today>.log and its WriteString lands.
C8_OpenFailureDropsAndRetries ==
    /\ [][\A t \in Threads :
            OpenFailed(t) =>
                /\ pc'[t] = "idle" /\ loc'[t] = NoLoc
                /\ mu'.writer = NoThread
                /\ files' = files /\ lost' = lost
                /\ fl'.enabled
                /\ fl'.file = NilFile \/ fl'.date # now
         ]_vars
    /\ [](fl.enabled /\ fl.file # NilFile /\ ~handles[fl.file].open
            => fl.date # now)
    /\ [](fl.enabled /\ NeedsOpen =>
            LET r == getLogFile(fl, handles, files, dirExists, now,
                                TRUE, TRUE)
            IN /\ ~r.err /\ r.file # NilFile
               /\ r.handles[r.file].open /\ r.handles[r.file].day = now)
    /\ [](\A t \in Threads :
            pc[t] \in {"write315", "write318"} =>
                handles[loc[t].file].open)
    /\ [](lost = {})

\* A rotation failed (the handle of day 1 closed, file still pointing at it)
\* and a later append has reopened and written on day 2.
C8_Witness ==
    /\ fl.enabled
    /\ \E h \in DOMAIN handles : handles[h].day = 1 /\ handles[h].closes >= 2
    /\ fl.file # NilFile /\ handles[fl.file].open /\ handles[fl.file].day = 2
    /\ 2 \in DOMAIN files /\ Len(files[2]) >= 1

\* ------------------------------------------------------------------- C9
\* C9: InitLogger's level gates both sinks: a finished log call below the
\* level wrote no console line and appended nothing to a file, one at or
\* above it wrote its console line, and a file holds an entry only if the
\* console got the line.
C9_LevelGatesBothSinks ==
    (req.fn = "log" /\ ret.done /\ ~ret.panic) =>
        /\ req.level < minLevel => stdout = <<>> /\ FileEntries = {}
        /\ req.level >= minLevel => Len(stdout) = 1
        /\ FileEntries # {} => stdout # <<>>

\* ------------------------------------------------------------------ C10
\* C10: no call of GetTraceID, direct or from a log call, panics, whatever
\* the carrier holds, and GetTraceID returns "" for a carrier without a
\* string trace id.
C10_GetTraceIDNeverPanics ==
    ret.done =>
        /\ ~ret.panic
        /\ (req.fn = "GetTraceID" /\ req.ctx.val.type # "string")
              => ret.value = ""

\* ---------------------------------------------------------------- strings
\* s begins with p.
HasPrefix(s, p) == Len(s) >= Len(p) /\ SubSeq(s, 1, Len(p)) = p
\* s ends with p.
HasSuffix(s, p) ==
    Len(s) >= Len(p) /\ SubSeq(s, Len(s) - Len(p) + 1, Len(s)) = p

\* A log call has returned without panicking.
LogDone == req.fn = "log" /\ ret.done /\ ~ret.panic
\* The string the carrier of the call holds under TraceIDKey, "" when none.
Held == IF req.ctx.kind \in {"fasthttp", "context"}
           /\ req.ctx.val.type = "string"
        THEN req.ctx.val.v ELSE ""
\* The caller's args that are attributes.
CallerAttrs == LET kept == SelectSeq(req.args, IsAttr)
               IN [i \in DOMAIN kept |-> AsAttr(kept[i])]
\* How many attributes of a sequence have the key k.
Count(attrs, k) == Cardinality({i \in DOMAIN attrs : attrs[i].key = k})

\* ------------------------------------------------------------------ C11
\* C11: a call L(C, M) on a carrier holding trace id T renders trace_id=T
\* as the first attribute after the message in the console line and as the
\* first attribute line of the file entry, the source location only after.
C11_TraceIDFirstInBothSinks ==
    (LogDone /\ ~req.plain /\ Held # "" /\ req.args = <<>>) =>
        /\ \A i \in DOMAIN stdout :
               /\ Len(stdout[i]) >= 4
               /\ stdout[i][4] = "trace_id=" \o Held
        /\ \A e \in FileEntries :
               /\ Len(e) >= 2
               /\ e[2] \in {"  |- trace_id: " \o Held,
                             "  +- trace_id: " \o Held}

C13_PlainConsoleLine ==
    (LogDone /\ req.plain /\ Count(CallerAttrs, "trace_id") = 0) =>
        IF req.level >= minLevel
        THEN /\ Len(stdout) = 1
             /\ stdout[1][2] =
                   (CASE req.level = LevelDebug -> "\\033[37m[DEBUG]\\033[0m"
                      [] req.level = LevelInfo  -> "\\033[34m[INFO]\\033[0m"
                      [] req.level = LevelWarn  -> "\\033[33m[WARN]\\033[0m"
                      [] req.level = LevelError -> "\\033[31m[ERROR]\\033[0m")
             /\ stdout[1][3] = req.msg
             /\ \A j \in 4..Len(stdout[1]) :
                    ~HasPrefix(stdout[1][j], "trace_id=")
        ELSE stdout = <<>>

\* Warn("boot") through a handler at level Warn has written its line.
C13_Witness ==
    /\ LogDone /\ req.plain /\ req.args = <<>>
    /\ req.level = LevelWarn /\ minLevel = LevelWarn
    /\ Len(stdout) = 1
    /\ stdout[1][3] = "boot"

\* ------------------------------------------------------------------ C14
\* The file entry of the call's record: a header line and one line per
\* attribute of the record, each reading prefix, key, ": ", value; the last
\* of two or more lines has the prefix "  +- ", an only line the prefix only.
EntryOfRecord(e, only) ==
    LET n == Len(lastRecord.attrs)
    IN /\ Len(e) = n + 1
       /\ \A i \in 1..n :
             e[i + 1] = (IF i < n THEN "  |- "
                           ELSE IF n >= 2 THEN "  +- " ELSE only)
                           \o lastRecord.attrs[i].key \o ": "
                           \o lastRecord.attrs[i].value

\* C14 as claimed: the last attribute line is prefixed "  +- ", also when
\* it is the only one.
C14_LastLineLastForm ==
    LogDone =>
        \A e \in FileEntries : EntryOfRecord(e, "  +- ")

\* C14 as amended: n attributes give the header and n attribute lines, the
\* first n-1 prefixed "  |- "; the last is prefixed "  +- " when n >= 2 and
\* keeps "  |- " when it is the only one.
C14_LastFormFromTwo ==
    LogDone =>
        \A e \in FileEntries : EntryOfRecord(e, "  |- ")

\* An entry with a single attribute line and (in another run) one with two.
C14_Witness ==
    /\ LogDone
    /\ Len(lastRecord.attrs) = 1
    /\ \E e \in FileEntries : Len(e) = 2 /\ HasPrefix(e[2], "  |- trace_id: ")

\* ------------------------------------------------------------------ C15
\* Info(M) without args through the default dispatcher, in a process started
\* in /app with LOG_DIR_PATH unset, has returned with the sink enabled and a
\* file opened.
BootLogged ==
    /\ LogDone /\ req.plain /\ req.args = <<>>
    /\ req.logger = "default" /\ req.level = LevelInfo
    /\ startEnv = DefaultEnv
    /\ fl.enabled /\ fl.file # NilFile

\* C15 as claimed: the call (made from a place runtime.Caller finds, with no
\* midnight passing during it) has appended to
\* /app/external/logs/<today>.log one entry, a header line from "[<today> "
\* to "| M" and nothing else.
C15_BootHeaderOnly ==
    (BootLogged /\ env = DefaultEnv /\ req.callerOk
       /\ lastRecord.time = now) =>
        /\ PathOf(now) = "/app/external/logs/" \o Date(now) \o ".log"
        /\ DOMAIN files = {now}
        /\ Len(files[now]) = 1
        /\ LET e == files[now][1]
           IN /\ Len(e) = 1
              /\ HasPrefix(e[1], "[" \o Date(now) \o " ")
              /\ HasSuffix(e[1], "| " \o req.msg)

\* C15 as amended: the call has appended to /app/external/logs/<today>.log,
\* today being the day of its rotation check, one entry: a header line from
\* "[<day of the record's timestamp> " to "| M", followed by the one
\* attribute line of the source location (by none when runtime.Caller has
\* not found the caller).
C15_BootHeaderAndSource ==
    BootLogged =>
        /\ PathOf(now) = "/app/external/logs/" \o Date(now) \o ".log"
        /\ DOMAIN files = {now}
        /\ Len(files[now]) = 1
        /\ LET e == files[now][1]
           IN /\ HasPrefix(e[1], "[" \o Date(lastRecord.time) \o " ")
              /\ HasSuffix(e[1], "| " \o req.msg)
              /\ lastRecord.time \in {now - 1, now}
              /\ IF req.callerOk
                 THEN /\ Len(e) = 2
                      /\ e[2] = "  |- source: " \o SourceAttr.value
                 ELSE Len(e) = 1

\* Info("boot") has written its header and source line to the file of day 1.
C15_Witness ==
    /\ BootLogged /\ req.callerOk /\ now = 1
    /\ files[1] = << <<"[2025-07-01 10:30:45.123] INFO | boot",
                       "  |- source: [/app/main.go:15]">> >>

\* ------------------------------------------------------------------ C16
\* The column after "[", the 23 characters of the timestamp and "] ".
LevelCol == Len("[" \o FormatFile(1) \o "] ") + 1

\* C16: in the header line the level takes 5 characters, so that " | "
\* follows at the same column for every level.
C16_LevelPaddedToFive ==
    \A e \in FileEntries :
        /\ Len(e[1]) >= LevelCol + 7
        /\ SubSeq(e[1], LevelCol + 5, LevelCol + 7) = " | "

\* ------------------------------------------------------------------ C17
\* C17: EnableFileLogging resolves the directory: after the call
\* fileLogger.dir is what LOG_DIR_PATH (or the working directory) gives at
\* that moment, and it is the directory the appends that follow use.
C17_DirResolvedAtEnable ==
    [][/\ EnableFileLogging(1) => fl'.dir = initFileLogger(env)
       /\ CallLog => fl'.dir = fl.dir
      ]_vars

\* ------------------------------------------------------------------ C18
\* s is a prefix of t.
IsPrefix(s, t) == Len(s) <= Len(t) /\ SubSeq(t, 1, Len(s)) = s

\* C18: no step, an append, a rotation, a disable, an enable or a restart of
\* the process among them, removes a day-file or changes what it already
\* holds: the content before the step is a prefix of the content after it;
\* so a handle opened on an existing <day>.log writes after that content.
C18_AppendOnly ==
    [][\A d \in DOMAIN files :
          /\ d \in DOMAIN files'
          /\ IsPrefix(files[d], files'[d])
      ]_vars

\* The process was started again on the day its first call wrote a record:
\* the second call has reopened that file (handle 2, handle 1 having been
\* closed by the exit) and is about to write after the record.
C18_Witness ==
    /\ nRestart = 1 /\ calls = 2
    /\ pc[1] = "write318" /\ loc[1].file = 2
    /\ Len(handles) = 2
    /\ ~handles[1].open /\ handles[1].closes = 0
    /\ handles[2].open /\ handles[2].day = handles[1].day
    /\ handles[2].day \in DOMAIN files
    /\ Len(files[handles[2].day]) = 1

\* ------------------------------------------------------------------ C19
\* C19: EnableFileLogging only sets enabled: from Disabled (not enabled, no
\* handle) it gives Closed (enabled, no handle) and creates or opens
\* nothing, and when the sink is enabled already it changes nothing.
\* DisableFileLogging from any state leaves the sink Disabled with no handle
\* open, closing the open one if there is one, and changes nothing when the
\* sink is Disabled already. Neither touches directory or file contents.
C19_EnableDisableIdempotent ==
    /\ [](~fl.enabled => fl.file = NilFile)
    /\ [][\A t \in Threads :
            /\ EnableFileLogging(t) =>
                   /\ fl'.enabled
                   /\ fl'.file = fl.file /\ fl'.date = fl.date
                   /\ fl'.dir = fl.dir
                   /\ handles' = handles /\ files' = files
                   /\ dirExists' = dirExists
                   /\ fl.enabled => fl' = fl
            /\ DisableBody(t) =>
                   /\ ~fl'.enabled /\ fl'.file = NilFile
                   /\ OpenHandles' = {}
                   /\ \A h \in DOMAIN handles :
                         handles'[h].closes = handles[h].closes
                             + (IF h = fl.file THEN 1 ELSE 0)
                   /\ fl'.dir = fl.dir
                   /\ files' = files /\ dirExists' = dirExists
                   /\ (~fl.enabled /\ fl.file = NilFile) =>
                         fl' = fl /\ handles' = handles
         ]_vars

\* A second DisableFileLogging in a row holds the lock on a sink that the
\* first one left Disabled, after a handle had been opened and closed.
C19_Witness ==
    /\ nRestart = 0 /\ nCtl = 3
    /\ pc[1] = "disable263"
    /\ ~fl.enabled /\ fl.file = NilFile
    /\ Len(handles) >= 1 /\ OpenHandles = {}

\* ------------------------------------------------------------------ C20
\* C20: both renderers render the caller's attributes once each and in the
\* order given, whatever their keys: they are the last fields of the
\* console line, as key=value, and the last lines of the file entry, as
\* "key: value" behind the tree prefix.
C20_EveryAttributeRendered ==
    LogDone =>
        LET n == Len(CallerAttrs)
        IN /\ \A i \in DOMAIN stdout :
                 LET line == stdout[i]
                 IN /\ Len(line) >= 3 + n
                    /\ \A j \in 1..n :
                          line[Len(line) - n + j] =
                              CallerAttrs[j].key \o "=" \o CallerAttrs[j].value
           /\ \A e \in FileEntries :
                 /\ Len(e) >= 1 + n
                 /\ \A j \in 1..n :
                       \E prefix \in {"  |- ", "  +- "} :
                          e[Len(e) - n + j] =
                              prefix \o CallerAttrs[j].key \o ": "
                                     \o CallerAttrs[j].value

\* ------------------------------------------------------------------ C21
\* The places of args that hold a slog.Attr, and how many of them come
\* before place i.
AttrPlaces == {i \in DOMAIN req.args : req.args[i].attr}
AttrsUpTo(i) == Cardinality({j \in AttrPlaces : j <= i})

\* C21: the record's caller attributes are the args that are slog.Attr
\* values, each at its rank among them and with its key and value, after
\* the attributes of enrichment and with nothing else; an arg of another
\* type is left out, and it neither makes the call panic (only the carrier
\* of C10 does) nor keeps the record from the console handler.
C21_MalformedArgsDropped ==
    (req.fn = "log" /\ ret.done) =>
        /\ ret.panic => (req.ctx.kind = "fasthttp"
                           /\ req.ctx.val.type \notin {"nil", "string"})
        /\ ~ret.panic =>
              LET n    == Cardinality(AttrPlaces)
                  lead == Len(lastRecord.attrs) - n
              IN /\ lead \in 0..2
                 /\ \A i \in AttrPlaces :
                       lastRecord.attrs[lead + AttrsUpTo(i)] =
                           [key |-> req.args[i].key,
                            value |-> req.args[i].value]
                 /\ \A j \in 1..lead :
                       lastRecord.attrs[j] \in
                           {TraceAttr(Held), SourceAttr}
                 /\ Len(stdout) = (IF req.level >= minLevel THEN 1 ELSE 0)

\* A call whose first arg is no slog.Attr and whose second is user_id=42:
\* the record ends with user_id=42 and its line is on the console.
C21_Witness ==
    /\ LogDone
    /\ Len(req.args) = 2
    /\ ~req.args[1].attr
    /\ req.args[2].attr /\ req.args[2].key = "user_id"
    /\ lastRecord.attrs[Len(lastRecord.attrs)] =
          [key |-> "user_id", value |-> "42"]
    /\ Len(stdout) = 1

\* ------------------------------------------------------------------ C22
\* C22: no handle is closed twice, whatever the threads, the day changes,
\* the failures of MkdirAll and OpenFile and the DisableFileLogging calls.
C22_NoDoubleClose ==
    \A h \in DOMAIN handles : handles[h].closes <= 1

\* ------------------------------------------------------------------ C23
\* The threads inside file.WriteString (holding the read lock for it).
Writing == {t \in Threads : pc[t] = "write318"}

\* C23: at most one thread is inside WriteString at a time, and none while
\* another thread is in the body of getLogFile or of DisableFileLogging,
\* where the handle is closed and reopened.
C23_AppendAlone ==
    /\ Cardinality(Writing) <= 1
    /\ Writing # {} =>
          \A t \in Threads : pc[t] \notin {"get276", "disable263"}

\* ------------------------------------------------------------------ C24
\* C24: fileLogger.mu is held only inside the bodies of getLogFile and
\* DisableFileLogging (write lock) and around WriteString (read lock): a
\* goroutine about to acquire it, or back from its call, holds nothing.
\* Under fair scheduling every call in progress returns, and the mutex is
\* free again and again, so that a call waiting for it gets it.
C24_DeadlockFree ==
    /\ [](\A t \in Threads :
            /\ mu.writer = t <=> pc[t] \in {"get276", "disable263"}
            /\ t \in mu.readers <=> pc[t] = "write318"
            /\ ~(mu.writer # NoThread /\ mu.readers # {}))
    /\ \A t \in Threads : (pc[t] # "idle") ~> (pc[t] = "idle")
    /\ []<>CanLock

\* A goroutine waits in getLogFile's Lock while another is inside
\* WriteString under the read lock.
C24_Witness ==
    \E t \in Threads, u \in Threads :
        /\ pc[t] = "get273"
        /\ pc[u] = "write318" /\ u \in mu.readers

TypeOK ==
    /\ now \in Days
    /\ fl.file \in 0..Len(handles)
    /\ mu.writer \in Threads \cup {NoThread}
    /\ mu.readers \subseteq Threads

====
